---- MODULE Spec2Model ----
(***************************************************************************)
(* State-machine model of the MikroTik backup manager:                     *)
(*   utils/backup.py     create_backup  (one backup transaction)           *)
(*   utils/scheduler.py  scheduled_backup_job, add_log_entry               *)
(*   app.py              backup_single, backup_all                         *)
(*   utils/gdrive.py     GoogleDriveClient (upload_file, is_authorized)    *)
(*   utils/scheduler.py  update_scheduler, init_scheduler (the recurring   *)
(*                       job), with app.py settings and dashboard          *)
(*                                                                         *)
(* Spec            the backup handlers, one at a time                      *)
(* SchedulerSpec   update_scheduler calls of one thread                    *)
(* ReconfigureSpec update_scheduler calls of concurrent request threads    *)
(* LogSpec         add_log_entry calls one after another                   *)
(* LogRaceSpec     add_log_entry calls that overlap                        *)
(* ClientSpec      GoogleDriveClient.initialize and the token file         *)
(* OverlapSpec     create_backup calls of two threads at the same time     *)
(*                                                                         *)
(* A string that the code splits on '-' is modelled as the sequence of its *)
(* '-'-free segments, each segment a sequence of atoms, so that            *)
(* str.split('-') and '-'.join are the identity on the representation and  *)
(* f-string concatenation is sequence concatenation.                       *)
(***************************************************************************)
EXTENDS Integers, Sequences, FiniteSets, TLC

\* ------------------------------------------------------------------ bounds
MaxBackups == 2    \* create_backup calls per behaviour
MaxFaults == 2     \* failures the environment injects per behaviour
MaxPrior == 2      \* backups already in the cloud store at start
MaxUpdates == 2    \* settings forms saved per behaviour
MaxFirings == 1    \* firings of the recurring job per behaviour
MaxAppends == 3    \* add_log_entry calls per behaviour
MaxRefreshes == 2  \* access tokens the authorization server issues per behaviour
MaxCalls == 2      \* overlapping create_backup calls per behaviour

\* --------------------------------------------------------- program constants
KEEP_MANUAL == 2       \* keep_latest of backup_single / backup_all
KEEP_SCHEDULED == 12   \* keep_latest of scheduled_backup_job
LOG_LIMIT == 100       \* save_backup_log keeps log[-100:]

\* ---------------------------------------------------------------- inventory
\* A router record of data/routers.json, plus `device`, the name the device
\* itself reports for /system/identity (device state, not inventory data).
RouterA == [id |-> "a", name |-> << <<"gw">> >>, device |-> << <<"R1">> >>]
RouterB == [id |-> "b", name |-> << <<"R2">> >>, device |-> << <<"R2">> >>]
Inventories == {<< >>, <<RouterA, RouterB>>}
RouterIds == {"a", "b", "zz"}
NoRouter == [id |-> "", name |-> << >>, device |-> << >>]

\* ------------------------------------------------------------ artifact names
BACKUP_DIR == "backups"
NoName == << >>
\* the string '' as split('-') gives it: one empty segment
EmptyName == << << >> >>
\* the truth value of a string: '-'.join([]) and '-'.join(['']) are both ''
Truthy(s) == s # << >> /\ s # << << >> >>

\* what api.get_resource('/system/identity').get()[0]['name'] gives: the name
\* the device was given, the empty name of a device that was given none, or
\* an exception
IdentityAnswers == {"name", "empty", "error"}

\* datetime.now().strftime("%Y%m%d-%H%M%S") at clock value t: two segments.
Timestamp(t) == << <<"20240101">>, <<ToString(t)>> >>

\* f"{identity}-{timestamp}"
Stem(identity, t) == identity \o Timestamp(t)

\* f"{filename}.rsc" / f"{filename}.backup": the extension joins the last segment
WithExt(stem, ext) ==
  SubSeq(stem, 1, Len(stem) - 1) \o << stem[Len(stem)] \o <<".", ext>> >>

\* os.path.join(config.BACKUP_DIR, name) and os.path.basename(path)
LocalPath(name) == [dir |-> BACKUP_DIR, name |-> name]
Basename(path) == path.name

\* '-'.join(filename.split('-')[:-1])
DerivedIdentity(filename) == SubSeq(filename, 1, Len(filename) - 1)

\* ------------------------------------------------------------------- errors
EXPORT_ERRORS == {"unknown parameter", "export failed"}

VARIABLES
  (* environment and persisted state *)
  inventory,      \* data/routers.json
  delete_local,   \* settings['delete_local_after_upload']
  now,            \* wall clock, in seconds-resolution ticks
  remote,         \* files on the devices: set of [router, name]
  localFS,        \* files in BACKUP_DIR: set of paths
  drive,          \* cloud store: set of [id, name, created]
  log,            \* data/backup_log.json
  token,          \* credentials/token.json: "none" (no file) | "valid" |
                  \* "expired" | "empty" (opened for writing, nothing written)
  google_drive_folder_id,   \* settings['google_drive_folder_id']
  (* the running handler *)
  trigger,        \* "none" | "scheduler" | "manual" | "manual_all"
  queue,          \* routers still to be processed by the sweep
  authorized,     \* gdrive_authorized, the handler's answer of is_authorized()
  pc,             \* position in the handler / in create_backup
  backups,        \* create_backup calls so far
  faults,         \* failures injected so far
  outcome,        \* how the last handler ended: "none" | "done" | "raised"
  ran,            \* ids of the routers create_backup was called for, in order
  logged,         \* entries the current handler appended
  (* create_backup locals *)
  router, api_pool, ftp, identity, filename, exports, snapshot, slept,
  attempted, local_files, quit_failed, cleanup, error, result,
  (* upload loop locals *)
  idx, drive_files, drive_errors, removed, log_entry, pruned,
  (* the recurring job: settings.json, the APScheduler job store, the callers *)
  settings,       \* the schedule keys of data/settings.json
  jobs,           \* the jobs the scheduler holds: sequence of [id, func, trigger, ...]
  started,        \* init_scheduler: "no" | "init" | "yes"
  u_pc,           \* position of each caller in the settings view / update_scheduler
  u_settings,     \* update_scheduler's local `settings`
  u_found,        \* what scheduler.get_job(JOB_ID) answered the caller
  u_outcome,      \* how the caller's last update_scheduler ended
  updates,        \* settings forms saved so far
  fired,          \* firings of the recurring job so far
  d_pc,           \* position of the dashboard view
  d_enabled,      \* dashboard's local schedule_enabled
  next_run,       \* dashboard's local next_run: "unset" | "none" | "time"
  (* add_log_entry calls *)
  w_pc,           \* position of each caller of add_log_entry
  w_log,          \* add_log_entry's local `log`
  w_entry,        \* add_log_entry's argument
  appends,        \* add_log_entry calls started so far
  appended,       \* every entry ever saved, in the order the saves happened
  overlapped,     \* some call loaded the log while another was between load and save
  (* GoogleDriveClient and the token file *)
  token_serial,   \* which access token credentials/token.json holds
  service,        \* self.service: "None" | "built"
  initialized,    \* self._initialized
  client_error,   \* self._error
  i_pc,           \* position in initialize / in its caller
  i_creds,        \* initialize's local `creds`
  i_before,       \* the token file as the running initialize call found it
  i_refresh,      \* creds.refresh in the running call: "none" | "ok" | "failed"
  i_return,       \* what the last initialize call returned
  refreshes,      \* access tokens the authorization server issued so far
  (* create_backup calls that run at the same time *)
  c_pc,           \* position of each call
  c_router,       \* its argument
  c_filename,     \* its local `filename`
  c_local_files,  \* its local `local_files`
  c_calls         \* calls started so far

envVars == <<inventory, delete_local, now, remote, localFS, drive, log, token,
            google_drive_folder_id>>
handlerVars == <<trigger, queue, authorized, pc, backups, outcome, ran, logged>>
txVars == <<router, api_pool, ftp, identity, filename, exports, snapshot, slept,
            attempted, local_files, quit_failed, cleanup, error, result>>
upVars == <<idx, drive_files, drive_errors, removed, log_entry, pruned>>
schedVars == <<settings, jobs, started, u_pc, u_settings, u_found, u_outcome,
               updates, fired, d_pc, d_enabled, next_run>>
writerVars == <<w_pc, w_log, w_entry, appends, appended, overlapped>>
clientVars == <<token_serial, service, initialized, client_error, i_pc, i_creds,
                i_before, i_refresh, i_return, refreshes>>
raceVars == <<c_pc, c_router, c_filename, c_local_files, c_calls>>
backupVars == <<handlerVars, txVars, upVars, faults>>
vars == <<envVars, backupVars, schedVars, writerVars, clientVars, raceVars>>

NoResult == [success |-> FALSE, router_id |-> "", router_name |-> << >>,
             message |-> [head |-> "", names |-> << >>, cause |-> ""],
             local_files |-> << >>, timestamp |-> 0, made |-> FALSE]

\* BackupResult.__init__
BackupResult(success, r, message, files, t) ==
  [success |-> success, router_id |-> r.id, router_name |-> r.name,
   message |-> message, local_files |-> files, timestamp |-> t, made |-> TRUE]

\* f"Backup failed: {str(e)}"
FailedMessage(e) == [head |-> "Backup failed: ", names |-> << >>, cause |-> e]
\* f"Backup created: {', '.join(file_names)}"
CreatedMessage(files) ==
  [head |-> "Backup created: ",
   names |-> [i \in 1..Len(files) |-> Basename(files[i])], cause |-> ""]

\* prior backups of identity R1 in the cloud store, oldest first
PriorDrive(n) ==
  {[id |-> i, name |-> WithExt(Stem(<< <<"R1">> >>, i), "rsc"), created |-> i,
    parents |-> "folder1"] : i \in 1..n}

\* the locals of create_backup at its entry (lines 52-54)
TxLocals ==
  /\ api_pool = "none" /\ ftp = "none"
  /\ identity = NoName /\ filename = NoName /\ exports = << >>
  /\ snapshot = FALSE /\ slept = FALSE /\ attempted = {} /\ local_files = << >>
  /\ quit_failed = FALSE /\ cleanup = "none" /\ error = "" /\ result = NoResult

\* the locals of the loop body before the upload test
UpLocals ==
  /\ idx = 0 /\ drive_files = << >> /\ drive_errors = << >> /\ removed = {}
  /\ log_entry = << >> /\ pruned = << >>

\* the handlers and their locals before any request
BackupInit ==
  /\ drive = PriorDrive(MaxPrior)
  /\ now = MaxPrior + 1
  /\ remote = {} /\ localFS = {}
  /\ trigger = "none" /\ queue = << >> /\ authorized = FALSE /\ pc = "idle"
  /\ backups = 0 /\ faults = 0 /\ outcome = "none" /\ ran = << >> /\ logged = 0
  /\ router = NoRouter /\ TxLocals /\ UpLocals

\* ------------------------------------------------- exception handling shape
\* Which handler receives an exception raised at a step of create_backup:
\*   "except"  the outer `except Exception` (lines 166-172)
\*   "pass"    an inner handler that swallows it and lets the code go on
\*   "raise"   no handler: the exception leaves create_backup
HandlerEscapesDisconnect(step) ==
  CASE step \in {"dl_rsc", "dl_backup", "cleanup", "finally_ftp"} -> "pass"
    [] step = "finally_api" -> "raise"
    [] OTHER -> "except"

HandlerEscapesQuit(step) ==
  CASE step \in {"dl_rsc", "dl_backup", "cleanup", "finally_api"} -> "pass"
    [] step = "finally_ftp" -> "raise"
    [] OTHER -> "except"

HandlerCleanupFatal(step) ==
  CASE step \in {"dl_rsc", "dl_backup", "finally_ftp", "finally_api"} -> "pass"
    [] OTHER -> "except"

HandlerQuitSwallowed(step) ==
  CASE step \in {"dl_rsc", "dl_backup", "ftp_quit", "cleanup", "finally_ftp",
                 "finally_api"} -> "pass"
    [] OTHER -> "except"

Handler(step) ==
  CASE step \in {"dl_rsc", "dl_backup"} -> "pass"          \* lines 124, 133
    [] step = "cleanup" -> "pass"                           \* line 146
    [] step \in {"finally_ftp", "finally_api"} -> "pass"    \* lines 178, 183
    [] OTHER -> "except"                                    \* line 166

\* an exception e raised at `step`; `next` is where the code goes on when it
\* is swallowed
Fail(step, e, next) ==
  CASE Handler(step) = "except" -> pc' = "except" /\ error' = e
    [] Handler(step) = "pass" -> pc' = next /\ error' = error
    [] OTHER -> pc' = "escaped" /\ error' = e

\* the environment makes a step fail / lets it run as expected
Injected == faults < MaxFaults /\ faults' = faults + 1
Quiet == faults' = faults

\* 'unknown parameter' in str(e).lower()
RetryOnAnyError(e) == TRUE
IsUnsupportedOption(e) == e = "unknown parameter"

RemoteFile(name) == [router |-> router.id, name |-> name]

\* -------------------------------------------------------------- create_backup
\* lines 58-65: RouterOsApiPool(...) and api_pool.get_api()
Connect ==
  /\ pc = "connect"
  /\ \/ /\ api_pool' = "open" /\ pc' = "identity" /\ error' = error /\ Quiet
     \/ /\ api_pool' \in {"created", "none"}
        /\ Injected
        /\ Fail("connect", "api connect failed", "identity")
  /\ UNCHANGED <<clientVars, raceVars, schedVars, writerVars, envVars, upVars, trigger, queue, authorized, backups, outcome,
                 ran, logged, router, ftp, identity, filename, exports, snapshot,
                 slept, attempted, local_files, quit_failed, cleanup, result>>

\* lines 68-78: identity query with fallback, timestamp, filename, makedirs
ResolveIdentity ==
  /\ pc = "identity"
  /\ \E answer \in IdentityAnswers, made \in BOOLEAN :
       /\ identity' = CASE answer = "name" -> router.device
                         [] answer = "empty" -> EmptyName
                         [] OTHER -> router.name          \* line 71
       /\ IF answer = "name" /\ made
          THEN Quiet
          ELSE /\ faults + (IF answer = "name" THEN 0 ELSE 1)
                         + (IF made THEN 0 ELSE 1) <= MaxFaults
               /\ faults' = faults + (IF answer = "name" THEN 0 ELSE 1)
                                   + (IF made THEN 0 ELSE 1)
       /\ IF made
          THEN pc' = "export" /\ error' = error
          ELSE Fail("makedirs", "makedirs failed", "export")
  /\ filename' = Stem(identity', now)
  /\ UNCHANGED <<clientVars, raceVars, schedVars, writerVars, envVars, upVars, trigger, queue, authorized, backups, outcome,
                 ran, logged, router, api_pool, ftp, exports, snapshot, slept,
                 attempted, local_files, quit_failed, cleanup, result>>

\* one call of export: the show-sensitive flag it carried and what the device
\* answered ("ok" or the error text)
ExportCall(sensitive, answer) == [sensitive |-> sensitive, answer |-> answer]

\* lines 82-100: export with show-sensitive, retried once without it
Export ==
  /\ pc = "export"
  /\ \/ /\ exports' = <<ExportCall(TRUE, "ok")>>
        /\ remote' = remote \cup {RemoteFile(WithExt(filename, "rsc"))}
        /\ Quiet
        /\ pc' = "snapshot" /\ error' = error
     \/ \E e \in EXPORT_ERRORS :
          IF IsUnsupportedOption(e)
          THEN \/ /\ exports' = <<ExportCall(TRUE, e), ExportCall(FALSE, "ok")>>
                  /\ remote' = remote \cup {RemoteFile(WithExt(filename, "rsc"))}
                  /\ Injected
                  /\ pc' = "snapshot" /\ error' = error
               \/ \E e2 \in EXPORT_ERRORS :
                    /\ exports' = <<ExportCall(TRUE, e), ExportCall(FALSE, e2)>>
                    /\ remote' = remote
                    /\ faults + 2 <= MaxFaults /\ faults' = faults + 2
                    /\ Fail("export", e2, "snapshot")
          ELSE /\ exports' = <<ExportCall(TRUE, e)>>
               /\ remote' = remote
               /\ Injected
               /\ Fail("export", e, "snapshot")
  /\ UNCHANGED <<clientVars, raceVars, schedVars, writerVars, google_drive_folder_id, inventory,
                 delete_local, now, localFS, drive, log, token, upVars,
                 trigger, queue, authorized, backups, outcome, ran, logged,
                 router, api_pool, ftp, identity, filename, snapshot, slept,
                 attempted, local_files, quit_failed, cleanup, result>>

\* lines 103-108: /system/backup save
Snapshot ==
  /\ pc = "snapshot"
  /\ snapshot' = TRUE
  /\ \/ /\ remote' = remote \cup {RemoteFile(WithExt(filename, "backup"))}
        /\ Quiet
        /\ pc' = "sleep" /\ error' = error
     \/ /\ remote' = remote
        /\ Injected
        /\ Fail("snapshot", "backup save failed", "sleep")
  /\ UNCHANGED <<clientVars, raceVars, schedVars, writerVars, google_drive_folder_id, inventory,
                 delete_local, now, localFS, drive, log, token, upVars,
                 trigger, queue, authorized, backups, outcome, ran, logged,
                 router, api_pool, ftp, identity, filename, exports, slept,
                 attempted, local_files, quit_failed, cleanup, result>>

\* `file_name in [f"{filename}.rsc", f"{filename}.backup"]` (line 143)
IsArtifactOfDevice(file_name) ==
  /\ Len(file_name) > Len(identity)
  /\ SubSeq(file_name, 1, Len(identity)) = identity

IsArtifact(file_name) ==
  file_name \in {WithExt(filename, "rsc"), WithExt(filename, "backup")}

\* the files of this transaction that the device lists
Mine == {f \in remote : f.router = router.id /\ IsArtifact(f.name)}

\* line 111: time.sleep(5). Meanwhile the device may lose a file it was told
\* to write (it writes asynchronously).
Sleep ==
  /\ pc = "sleep"
  /\ now' = now + 1
  /\ slept' = TRUE
  /\ \/ remote' = remote /\ Quiet
     \/ \E lost \in (SUBSET Mine) \ {{}} :
          /\ remote' = remote \ lost
          /\ Injected
  /\ pc' = "ftp_connect"
  /\ UNCHANGED <<clientVars, raceVars, schedVars, writerVars, google_drive_folder_id, inventory, delete_local,
                 localFS, drive, log, token, upVars,
                 trigger, queue, authorized, backups, outcome, ran, logged,
                 router, api_pool, ftp, identity, filename, exports, snapshot,
                 attempted, local_files, quit_failed, cleanup, error, result>>

\* lines 114-116: FTP(), connect, login
FtpConnect ==
  /\ pc = "ftp_connect"
  /\ \/ /\ ftp' = "open" /\ pc' = "dl_rsc" /\ error' = error /\ Quiet
     \/ /\ ftp' \in {"created", "open"}      \* connect failed / login failed
        /\ Injected
        /\ Fail("ftp_connect", "ftp connect failed", "dl_rsc")
  /\ UNCHANGED <<clientVars, raceVars, schedVars, writerVars, envVars, upVars, trigger, queue, authorized, backups, outcome,
                 ran, logged, router, api_pool, identity, filename, exports,
                 snapshot, slept, attempted, local_files, quit_failed, cleanup,
                 result>>

\* lines 119-125 (ext = "rsc") and 128-134 (ext = "backup")
Download(step, ext, next) ==
  /\ pc = step
  /\ attempted' = attempted \cup {ext}
  /\ LET name == WithExt(filename, ext)
         path == LocalPath(name)
     IN  /\ localFS' = localFS \cup {path}      \* open(path, "wb")
         /\ \/ /\ RemoteFile(name) \in remote
               /\ local_files' = Append(local_files, path)
               /\ Quiet
               /\ pc' = next /\ error' = error
            \/ /\ local_files' = local_files
               /\ IF RemoteFile(name) \in remote THEN Injected ELSE Quiet
               /\ Fail(step, "download failed", next)
  /\ UNCHANGED <<clientVars, raceVars, schedVars, writerVars, google_drive_folder_id, inventory,
                 delete_local, now, remote, drive, log, token, upVars,
                 trigger, queue, authorized, backups, outcome, ran, logged,
                 router, api_pool, ftp, identity, filename, exports, snapshot,
                 slept, quit_failed, cleanup, result>>

DownloadRsc == Download("dl_rsc", "rsc", "dl_backup")
DownloadBackup == Download("dl_backup", "backup", "ftp_quit")

\* lines 136-137: ftp.quit(); ftp = None
FtpQuit ==
  /\ pc = "ftp_quit"
  /\ \/ /\ ftp' = "closed" /\ quit_failed' = quit_failed
        /\ Quiet
        /\ pc' = "cleanup" /\ error' = error
     \/ /\ ftp' = ftp /\ quit_failed' = TRUE
        /\ Injected
        /\ Fail("ftp_quit", "ftp quit failed", "cleanup")
  /\ UNCHANGED <<clientVars, raceVars, schedVars, writerVars, envVars, upVars, trigger, queue, authorized, backups, outcome,
                 ran, logged, router, api_pool, identity, filename, exports,
                 snapshot, slept, attempted, local_files, cleanup, result>>

\* lines 140-147: list the device's files, remove the two artifacts by name
Cleanup ==
  /\ pc = "cleanup"
  /\ \/ /\ cleanup' = "list_error" /\ remote' = remote
        /\ Injected
        /\ Fail("cleanup", "file list failed", "evaluate")
     \/ \E S \in SUBSET Mine :
          /\ S # Mine
          /\ cleanup' = "remove_error" /\ remote' = remote \ S
          /\ Injected
          /\ Fail("cleanup", "file remove failed", "evaluate")
     \/ /\ cleanup' = IF Mine = {} THEN "absent" ELSE "removed"
        /\ remote' = remote \ Mine
        /\ Quiet
        /\ pc' = "evaluate" /\ error' = error
  /\ UNCHANGED <<clientVars, raceVars, schedVars, writerVars, google_drive_folder_id, inventory,
                 delete_local, now, localFS, drive, log, token, upVars,
                 trigger, queue, authorized, backups, outcome, ran, logged,
                 router, api_pool, ftp, identity, filename, exports, snapshot,
                 slept, attempted, local_files, quit_failed, result>>

NoFilesMessage == FailedMessage("Could not download any backup files")

\* lines 149-164
Evaluate ==
  /\ pc = "evaluate"
  /\ result' = IF local_files = << >>
               THEN BackupResult(FALSE, router, NoFilesMessage, << >>, now)
               ELSE BackupResult(TRUE, router, CreatedMessage(local_files),
                                 local_files, now)
  /\ pc' = "finally"
  /\ UNCHANGED <<clientVars, raceVars, schedVars, writerVars, envVars, upVars, trigger, queue, authorized, backups, outcome,
                 ran, logged, router, api_pool, ftp, identity, filename, exports,
                 snapshot, slept, attempted, local_files, quit_failed, cleanup,
                 error, faults>>

\* lines 166-172
Except ==
  /\ pc = "except"
  /\ result' = BackupResult(FALSE, router, FailedMessage(error), << >>, now)
  /\ pc' = "finally"
  /\ UNCHANGED <<clientVars, raceVars, schedVars, writerVars, envVars, upVars, trigger, queue, authorized, backups, outcome,
                 ran, logged, router, api_pool, ftp, identity, filename, exports,
                 snapshot, slept, attempted, local_files, quit_failed, cleanup,
                 error, faults>>

\* lines 180-184: `if api_pool:` disconnect, any exception swallowed
FinallyApi ==
  \/ /\ api_pool' = IF api_pool = "none" THEN "none" ELSE "disconnected"
     /\ pc' = "returned"
  \/ /\ api_pool # "none"
     /\ api_pool' = "disconnected"
     /\ pc' = IF Handler("finally_api") = "pass" THEN "returned" ELSE "escaped"

\* lines 174-184: `if ftp:` quit, then FinallyApi. A transfer object that never
\* connected has no socket, so its quit() raises.
Finally ==
  /\ pc = "finally"
  /\ \/ /\ ftp # "created"
        /\ ftp' = IF ftp = "open" THEN "closed" ELSE ftp
        /\ FinallyApi
     \/ /\ ftp \in {"created", "open"}
        /\ ftp' = "broken"
        /\ IF Handler("finally_ftp") = "pass"
           THEN FinallyApi
           ELSE pc' = "escaped" /\ api_pool' = api_pool
  /\ UNCHANGED <<clientVars, raceVars, schedVars, writerVars, envVars, upVars, trigger, queue, authorized, backups, outcome,
                 ran, logged, router, identity, filename, exports, snapshot,
                 slept, attempted, local_files, quit_failed, cleanup, error,
                 result, faults>>

\* ------------------------------------------------------------- cloud store
\* the methods class GoogleDriveClient defines
GoogleDriveClientMethods ==
  {"get_auth_url", "handle_callback", "is_authorized", "initialize",
   "upload_file", "list_files", "delete_file", "test_connection", "revoke"}

\* attribute lookup on gdrive_client: a name that is no method raises AttributeError
HasMethod(m) == m \in GoogleDriveClientMethods

NextId == IF drive = {} THEN 1
          ELSE (CHOOSE m \in {d.id : d \in drive} : \A d \in drive : m >= d.id) + 1

\* settings.get('google_drive_folder_id', '') or None
NoFolder == "None"
FolderId(v) == IF v = "" THEN NoFolder ELSE v

\* keep_latest passed by the handler
KeepLatestOfManual(t) == KEEP_MANUAL
KeepLatest(t) == IF t = "scheduler" THEN KEEP_SCHEDULED ELSE KEEP_MANUAL

\* --------------------------------------------------------------- log entries
\* BackupResult.to_dict
ToDictWithoutTimestamp(r) ==
  [success |-> r.success, router_id |-> r.router_id, router_name |-> r.router_name,
   message |-> r.message, local_files |-> r.local_files]

ToDict(r) ==
  [success |-> r.success, router_id |-> r.router_id, router_name |-> r.router_name,
   message |-> r.message, local_files |-> r.local_files, timestamp |-> r.timestamp]

\* d[k] = v
WithKey(d, k, v) == (k :> v) @@ d

\* log[-n:]
LastN(s, n) == IF Len(s) <= n THEN s ELSE SubSeq(s, Len(s) - n + 1, Len(s))

\* log.append(entry)
PrependEntry(l, e) == <<e>> \o l
AppendEntry(l, e) == Append(l, e)

\* save_backup_log writes log[-100:]
KeepFirst(l) == IF Len(l) <= LOG_LIMIT THEN l ELSE SubSeq(l, 1, LOG_LIMIT)
SaveBackupLog(l) == LastN(l, LOG_LIMIT)

\* GoogleDriveClient.is_authorized: the stored token yields usable credentials
IsAuthorized == token = "valid"

\* ------------------------------------------------------------------ handlers
StartHandler(kind, routers, auth) ==
  /\ pc = "idle"
  /\ backups + Len(routers) <= MaxBackups
  /\ trigger' = kind
  /\ ran' = << >> /\ logged' = 0
  /\ authorized' = auth
  /\ queue' = routers
  /\ IF routers = << >>
     THEN pc' = "idle" /\ outcome' = "done"
     ELSE pc' = "loop" /\ outcome' = "none"
  /\ api_pool' = "none" /\ ftp' = "none" /\ local_files' = << >>
  /\ identity' = NoName /\ filename' = NoName /\ exports' = << >>
  /\ snapshot' = FALSE /\ slept' = FALSE /\ attempted' = {}
  /\ quit_failed' = FALSE /\ cleanup' = "none" /\ error' = ""
  /\ result' = NoResult
  /\ idx' = 0 /\ drive_files' = << >> /\ drive_errors' = << >>
  /\ removed' = {} /\ log_entry' = << >> /\ pruned' = << >>
  /\ UNCHANGED <<clientVars, raceVars, schedVars, writerVars, envVars, router, backups, faults>>

\* scheduler.py lines 62-81
ScheduledBackupJob == StartHandler("scheduler", inventory, IsAuthorized)

\* app.py lines 354-367
BackupAll == StartHandler("manual_all", inventory, IsAuthorized)

\* get_router_by_id
GetRouterById(router_id) ==
  LET hits == {i \in 1..Len(inventory) : inventory[i].id = router_id}
  IN  IF hits = {} THEN << >>
      ELSE << inventory[CHOOSE i \in hits : \A j \in hits : i <= j] >>

\* app.py lines 290-297
BackupSingle ==
  \E router_id \in RouterIds :
    StartHandler("manual", GetRouterById(router_id), FALSE)

\* `for router in routers:` and the call of create_backup (lines 44-54)
NextRouter ==
  /\ pc = "loop"
  /\ IF queue = << >>
     THEN /\ pc' = "idle" /\ outcome' = "done"
          /\ UNCHANGED <<queue, ran, backups, router>>
     ELSE /\ router' = Head(queue)
          /\ queue' = Tail(queue)
          /\ ran' = Append(ran, Head(queue).id)
          /\ backups' = backups + 1
          /\ pc' = "connect" /\ outcome' = outcome
  /\ api_pool' = "none" /\ ftp' = "none" /\ local_files' = << >>
  /\ identity' = NoName /\ filename' = NoName /\ exports' = << >>
  /\ snapshot' = FALSE /\ slept' = FALSE /\ attempted' = {}
  /\ quit_failed' = FALSE /\ cleanup' = "none" /\ error' = ""
  /\ result' = NoResult
  /\ idx' = 0 /\ drive_files' = << >> /\ drive_errors' = << >>
  /\ removed' = {} /\ log_entry' = << >> /\ pruned' = << >>
  /\ UNCHANGED <<clientVars, raceVars, schedVars, writerVars, envVars, trigger, authorized, logged, faults>>

\* `if result.success and result.local_files and gdrive_authorized:`
UploadWithoutAuthorization(success, files, auth) == success /\ files # << >>
ShouldUpload(success, files, auth) == success /\ files # << >> /\ auth

\* result.to_dict(), triggered_by, and the test that guards the upload
PostBackup ==
  /\ pc = "returned"
  /\ log_entry' = WithKey(ToDict(result), "triggered_by", trigger)
  /\ idx' = 1
  /\ LET auth == IF trigger = "manual" /\ result.success /\ result.local_files # << >>
                 THEN IsAuthorized ELSE authorized
     IN  /\ authorized' = auth
         /\ pc' = IF ShouldUpload(result.success, result.local_files, auth)
                  THEN "upload" ELSE "log"
  /\ UNCHANGED <<clientVars, raceVars, schedVars, writerVars, envVars, txVars, trigger, queue, backups, outcome, ran, logged,
                 faults, drive_files, drive_errors, removed, pruned>>

\* `if delete_local and os.path.exists(local_file)` inside `if success:`
RemoveWhateverTheUpload(success, configured, exists) == configured /\ exists
ShouldRemove(success, configured, exists) == success /\ configured /\ exists

\* GoogleDriveClient.upload_file: why a call fails ("none": it does not).
\* initialize() fails without a usable token, the file may be gone, and the
\* API call (or the token refresh) may raise.
UploadCause(path, api_error) ==
  IF token # "valid" THEN "init"
  ELSE IF path \notin localFS THEN "missing"
  ELSE IF api_error THEN "api" ELSE "none"

\* how a failure of upload_file reaches the handler: lines 196-197 and 199-200
\* return (False, message), line 227 catches whatever the API call raises
UploadRaisesApiError(cause) == IF cause = "api" THEN "raise" ELSE "value"
UploadFailure(cause) == "value"

\* the error message upload_file returns
UploadError(cause) ==
  CASE cause = "init" -> "Not authorized. Please authorize Google Drive access first."
    [] cause = "missing" -> "File not found"
    [] OTHER -> "Upload failed"

\* one iteration of `for local_file in result.local_files:`
Upload ==
  /\ pc = "upload"
  /\ idx <= Len(result.local_files)
  /\ LET f == result.local_files[idx]
         folder == FolderId(google_drive_folder_id)
     IN
     \E api_error \in BOOLEAN :
       LET cause == UploadCause(f, api_error)
           success == cause = "none"
       IN
       /\ IF cause = "api" THEN Injected
          ELSE api_error = FALSE /\ Quiet
       /\ IF success
          THEN /\ drive' = drive \cup
                     {[id |-> NextId, name |-> Basename(f), created |-> NextId,
                       parents |-> folder]}
               /\ drive_files' = Append(drive_files,
                     [id |-> NextId, name |-> Basename(f), link |-> NextId])
               /\ drive_errors' = drive_errors
               /\ idx' = idx + 1
               /\ UNCHANGED <<pc, outcome>>
          ELSE IF UploadFailure(cause) = "value"
          THEN /\ drive' = drive
               /\ drive_files' = drive_files
               /\ drive_errors' = Append(drive_errors, UploadError(cause))
               /\ idx' = idx + 1
               /\ UNCHANGED <<pc, outcome>>
          ELSE /\ pc' = "idle" /\ outcome' = "raised"
               /\ UNCHANGED <<drive, drive_files, drive_errors, idx>>
       /\ IF ShouldRemove(success, delete_local, f \in localFS)
          THEN localFS' = localFS \ {f} /\ removed' = removed \cup {f}
          ELSE localFS' = localFS /\ removed' = removed
  /\ UNCHANGED <<clientVars, raceVars, schedVars, writerVars, google_drive_folder_id, inventory,
                 delete_local, now, remote, log, token, trigger, queue,
                 authorized, backups, ran, logged, txVars, log_entry, pruned>>

\* the identity the handler derives for pruning
RouterIdentity == DerivedIdentity(Basename(result.local_files[1]))

\* `if drive_files and delete_local:` before log_entry['local_deleted'] = True
LocalDeletedWhenConfigured(uploaded, configured) == configured
SetsLocalDeleted(uploaded, configured) == uploaded # << >> /\ configured

\* after the loop: drive_files, the prune call, drive_errors, local_deleted
AfterUpload ==
  /\ pc = "upload"
  /\ idx > Len(result.local_files)
  /\ IF drive_files # << >> /\ result.local_files # << >> /\ Truthy(RouterIdentity)
     THEN \* gdrive_client.delete_old_backups(router_identity, folder_id, keep_latest=..)
          /\ ~HasMethod("delete_old_backups")
          /\ pruned' = Append(pruned, [identity |-> RouterIdentity,
                                       folder_id |-> FolderId(google_drive_folder_id),
                                       keep_latest |-> KeepLatest(trigger)])
          /\ log_entry' = WithKey(log_entry, "drive_files", drive_files)
          /\ pc' = "idle" /\ outcome' = "raised"
     ELSE /\ pruned' = pruned
          /\ log_entry' =
               LET e1 == IF drive_files # << >>
                         THEN WithKey(log_entry, "drive_files", drive_files)
                         ELSE log_entry
                   e2 == IF drive_errors # << >>
                         THEN WithKey(e1, "drive_errors", drive_errors) ELSE e1
               IN  IF SetsLocalDeleted(drive_files, delete_local)
                   THEN WithKey(e2, "local_deleted", TRUE) ELSE e2
          /\ pc' = "log" /\ outcome' = outcome
  /\ UNCHANGED <<clientVars, raceVars, schedVars, writerVars, envVars, txVars, trigger, queue, authorized, backups, ran,
                 logged, idx, drive_files, drive_errors, removed, faults>>

\* add_log_entry: load_backup_log, append, save_backup_log; the loop body ends
\* here and its locals die
AddLogEntry ==
  /\ pc = "log"
  /\ log' = SaveBackupLog(AppendEntry(log, log_entry))
  /\ logged' = logged + 1
  /\ pc' = "loop"
  /\ api_pool' = "none" /\ ftp' = "none" /\ local_files' = << >>
  /\ identity' = NoName /\ filename' = NoName /\ exports' = << >>
  /\ snapshot' = FALSE /\ slept' = FALSE /\ attempted' = {}
  /\ quit_failed' = FALSE /\ cleanup' = "none" /\ error' = ""
  /\ result' = NoResult
  /\ idx' = 0 /\ drive_files' = << >> /\ drive_errors' = << >>
  /\ removed' = {} /\ log_entry' = << >> /\ pruned' = << >>
  /\ UNCHANGED <<clientVars, raceVars, schedVars, writerVars, google_drive_folder_id, inventory,
                 delete_local, now, remote, localFS, drive, token,
                 router, trigger, queue, authorized, backups, outcome, ran, faults>>

\* ------------------------------------------------------------ backup history
\* the handlers that call add_log_entry
Writers == {"scheduler", "manual", "manual_all"}

\* the entry of the k-th call, made by handler w
Entry(k, w) == [timestamp |-> k, triggered_by |-> w]

\* the history earlier runs left in data/backup_log.json, oldest first
PriorLog(n) == [i \in 1..n |-> Entry(i - n, "scheduler")]
PriorLengths == {0, LOG_LIMIT - 2, LOG_LIMIT}

\* no add_log_entry call is running
WriterIdle ==
  /\ w_pc = [w \in Writers |-> "idle"]
  /\ w_log = [w \in Writers |-> << >>]
  /\ w_entry = [w \in Writers |-> Entry(0, w)]
  /\ appends = 0 /\ appended = log /\ overlapped = FALSE

\* line 57: log = load_backup_log(). `serialized` callers wait for each other.
LoadBackupLog(w, serialized) ==
  /\ w_pc[w] = "idle"
  /\ serialized => \A v \in Writers : w_pc[v] = "idle"
  /\ appends < MaxAppends
  /\ appends' = appends + 1
  /\ w_entry' = [w_entry EXCEPT ![w] = Entry(appends + 1, w)]
  /\ w_log' = [w_log EXCEPT ![w] = log]
  /\ w_pc' = [w_pc EXCEPT ![w] = "loaded"]
  /\ overlapped' = (overlapped \/ \E v \in Writers \ {w} : w_pc[v] = "loaded")
  /\ UNCHANGED <<clientVars, raceVars, envVars, backupVars, schedVars, appended>>

\* lines 58-59: log.append(entry); save_backup_log(log)
SaveLog(w) ==
  /\ w_pc[w] = "loaded"
  /\ log' = SaveBackupLog(AppendEntry(w_log[w], w_entry[w]))
  /\ appended' = Append(appended, w_entry[w])
  /\ w_pc' = [w_pc EXCEPT ![w] = "idle"]
  /\ UNCHANGED <<clientVars, raceVars, backupVars, schedVars, inventory, delete_local, now, remote,
                 localFS, drive, token, google_drive_folder_id, w_log, w_entry,
                 appends, overlapped>>

\* ------------------------------------------------------------ recurring job
JOB_ID == "backup_all_routers"

\* config.DEFAULT_SETTINGS, the schedule keys
DEFAULT_SETTINGS ==
  [schedule_enabled |-> FALSE, schedule_type |-> "interval",
   schedule_interval_hours |-> 24, schedule_cron_hour |-> 2,
   schedule_cron_minute |-> 0]

\* the schedules the settings form posts here; schedule_type is a free form
\* field, "weekly" stands for a value that is neither 'interval' nor 'cron'
Schedules ==
  { DEFAULT_SETTINGS,
    [DEFAULT_SETTINGS EXCEPT !.schedule_interval_hours = 6],
    [DEFAULT_SETTINGS EXCEPT !.schedule_type = "cron"],
    [DEFAULT_SETTINGS EXCEPT !.schedule_type = "cron", !.schedule_cron_hour = 23,
                             !.schedule_cron_minute = 30],
    [DEFAULT_SETTINGS EXCEPT !.schedule_type = "weekly"] }

Descriptors == { [s EXCEPT !.schedule_enabled = e] : s \in Schedules, e \in BOOLEAN }

\* the values of the form's folder field
Folders == {"", "folder1"}

\* the threads that run the settings view (and init_scheduler at startup)
Callers == {"t1", "t2"}

\* scheduler.add_job(id=JOB_ID, func=scheduled_backup_job, trigger='interval', hours=hours)
IntervalJob(s) ==
  [id |-> JOB_ID, func |-> "scheduled_backup_job",
   trigger |-> [kind |-> "interval", args |-> <<s.schedule_interval_hours>>]]

\* scheduler.add_job(id=JOB_ID, func=scheduled_backup_job, trigger='cron', hour=hour, minute=minute)
CronJob(s) ==
  [id |-> JOB_ID, func |-> "scheduled_backup_job",
   trigger |-> [kind |-> "cron",
                args |-> <<s.schedule_cron_hour, s.schedule_cron_minute>>]]

\* the places of the jobs stored under an id
JobsWithId(id) == {i \in 1..Len(jobs) : jobs[i].id = id}

\* scheduler.get_job(id), as a truth value
GetJob(id) == JobsWithId(id) # {}

\* the store after scheduler.remove_job(id)
WithoutJob(id) ==
  LET keep == {i \in 1..Len(jobs) : jobs[i].id # id}
      F[k \in 0..Len(jobs)] ==
        IF k = 0 THEN << >>
        ELSE IF k \in keep THEN Append(F[k - 1], jobs[k]) ELSE F[k - 1]
  IN  F[Len(jobs)]

\* `if scheduler.get_job(JOB_ID):` guards the removal
NeverRemoveJob(found) == FALSE
ShouldRemoveJob(found) == found

\* `if not settings.get('schedule_enabled', False):`
DisabledInverted(s) == s.schedule_enabled
Disabled(s) == ~s.schedule_enabled

\* the scheduler before init_scheduler ran, no caller active
SchedulerIdle ==
  /\ jobs = << >> /\ started = "no"
  /\ u_pc = [p \in Callers |-> "idle"]
  /\ u_settings = [p \in Callers |-> DEFAULT_SETTINGS]
  /\ u_found = [p \in Callers |-> FALSE]
  /\ u_outcome = [p \in Callers |-> "none"]
  /\ updates = 0 /\ fired = 0
  /\ d_pc = "idle" /\ d_enabled = FALSE /\ next_run = "unset"

\* the end of a caller's update_scheduler; init_scheduler returns with it
EndUpdate(p, how) ==
  /\ u_pc' = [u_pc EXCEPT ![p] = "idle"]
  /\ u_outcome' = [u_outcome EXCEPT ![p] = how]
  /\ started' = IF started = "init" THEN "yes" ELSE started

\* init_scheduler: scheduler.init_app, scheduler.start, then update_scheduler
InitScheduler(p) ==
  /\ started = "no" /\ u_pc[p] = "idle"
  /\ started' = "init"
  /\ u_pc' = [u_pc EXCEPT ![p] = "load"]
  /\ UNCHANGED <<clientVars, raceVars, envVars, backupVars, writerVars, settings, jobs, u_settings,
                 u_found, u_outcome, updates, fired, d_pc, d_enabled, next_run>>

\* app.py settings(), POST: the form's values are saved, update_scheduler is called
SaveSettings(p) ==
  /\ started = "yes" /\ u_pc[p] = "idle"
  /\ updates < MaxUpdates
  /\ updates' = updates + 1
  /\ settings' \in Descriptors
  /\ delete_local' \in BOOLEAN
  /\ google_drive_folder_id' \in Folders
  /\ u_pc' = [u_pc EXCEPT ![p] = "load"]
  /\ UNCHANGED <<clientVars, raceVars, backupVars, writerVars, inventory, now, remote, localFS, drive,
                 log, token, jobs, started, u_settings, u_found, u_outcome, fired,
                 d_pc, d_enabled, next_run>>

\* line 136: settings = load_settings()
LoadSettings(p) ==
  /\ u_pc[p] = "load"
  /\ u_settings' = [u_settings EXCEPT ![p] = settings]
  /\ u_pc' = [u_pc EXCEPT ![p] = "get"]
  /\ UNCHANGED <<clientVars, raceVars, envVars, backupVars, writerVars, settings, jobs, started,
                 u_found, u_outcome, updates, fired, d_pc, d_enabled, next_run>>

\* line 139: scheduler.get_job(JOB_ID)
LookupJob(p) ==
  /\ u_pc[p] = "get"
  /\ u_found' = [u_found EXCEPT ![p] = GetJob(JOB_ID)]
  /\ u_pc' = [u_pc EXCEPT ![p] = IF ShouldRemoveJob(GetJob(JOB_ID))
                                 THEN "remove" ELSE "install"]
  /\ UNCHANGED <<clientVars, raceVars, envVars, backupVars, writerVars, settings, jobs, started,
                 u_settings, u_outcome, updates, fired, d_pc, d_enabled, next_run>>

\* line 140: scheduler.remove_job(JOB_ID); JobLookupError when the job is gone
RemoveJob(p) ==
  /\ u_pc[p] = "remove"
  /\ IF GetJob(JOB_ID)
     THEN /\ jobs' = WithoutJob(JOB_ID)
          /\ u_pc' = [u_pc EXCEPT ![p] = "install"]
          /\ UNCHANGED <<u_outcome, started>>
     ELSE /\ jobs' = jobs
          /\ EndUpdate(p, "raised")
  /\ UNCHANGED <<clientVars, raceVars, envVars, backupVars, writerVars, settings, u_settings, u_found,
                 updates, fired, d_pc, d_enabled, next_run>>

\* scheduler.add_job without replace_existing: ConflictingIdError when the id is taken
AddJob(p, job) ==
  IF GetJob(job.id)
  THEN jobs' = jobs /\ EndUpdate(p, "raised")
  ELSE jobs' = Append(jobs, job) /\ EndUpdate(p, "returned")

\* lines 142-168: the enabled test and the installation
Install(p) ==
  /\ u_pc[p] = "install"
  /\ LET s == u_settings[p] IN
       IF Disabled(s) THEN jobs' = jobs /\ EndUpdate(p, "returned")
       ELSE IF s.schedule_type = "interval" THEN AddJob(p, IntervalJob(s))
       ELSE IF s.schedule_type = "cron" THEN AddJob(p, CronJob(s))
       ELSE jobs' = jobs /\ EndUpdate(p, "returned")
  /\ UNCHANGED <<clientVars, raceVars, envVars, backupVars, writerVars, settings, u_settings, u_found,
                 updates, fired, d_pc, d_enabled, next_run>>

\* the scheduler runs the job's func when its trigger is due; the job stays
Fire ==
  /\ GetJob(JOB_ID)
  /\ fired < MaxFirings
  /\ fired' = fired + 1
  /\ UNCHANGED <<clientVars, raceVars, envVars, backupVars, writerVars, settings, jobs, started, u_pc,
                 u_settings, u_found, u_outcome, updates, d_pc, d_enabled, next_run>>

\* app.py dashboard(), line 93 and 104: settings = load_settings()
DashboardLoad ==
  /\ started = "yes" /\ d_pc = "idle"
  /\ d_enabled' = settings.schedule_enabled
  /\ next_run' = "unset"
  /\ d_pc' = "job"
  /\ UNCHANGED <<clientVars, raceVars, envVars, backupVars, writerVars, settings, jobs, started, u_pc,
                 u_settings, u_found, u_outcome, updates, fired>>

\* app.py dashboard(), lines 103-108
DashboardJob ==
  /\ d_pc = "job"
  /\ next_run' = IF d_enabled /\ GetJob(JOB_ID) THEN "time" ELSE "none"
  /\ d_pc' = "idle"
  /\ UNCHANGED <<clientVars, raceVars, envVars, backupVars, writerVars, settings, jobs, started, u_pc,
                 u_settings, u_found, u_outcome, updates, fired, d_enabled>>

\* the steps of the callers in P
UpdateScheduler(P) ==
  \E p \in P :
    \/ InitScheduler(p) \/ SaveSettings(p) \/ LoadSettings(p)
    \/ LookupJob(p) \/ RemoveJob(p) \/ Install(p)

\* ------------------------------------------------------ GoogleDriveClient
\* the values initialize returns: (True, None) / (False, self._error)
Ok == [ok |-> TRUE, error |-> ""]
Err(message) == [ok |-> FALSE, error |-> message]

NotAuthorized == "Not authorized. Please authorize Google Drive access first."
InvalidCredentials == "Invalid credentials. Please re-authorize Google Drive access."
FailedToInitialize == "Failed to initialize Google Drive"
\* not a return value: the exception that leaves initialize from line 158
JSONDecodeError == "JSONDecodeError"

\* Credentials.from_authorized_user_info(token_data, SCOPES)
Credentials(status, serial) == [status |-> status, serial |-> serial]
NoCredentials == Credentials("none", 0)

\* GoogleDriveClient.__init__, with the token file as `stored` describes it
ClientIdle ==
  /\ token_serial = 0
  /\ service = "None" /\ initialized = FALSE /\ client_error = ""
  /\ i_pc = "idle" /\ i_creds = NoCredentials /\ i_before = <<token, 0>>
  /\ i_refresh = "none" /\ i_return = Ok /\ refreshes = 0

\* where control goes after creds.refresh(Request()): line 170 when it
\* returned, the `except Exception` of line 180 when it raised
RefreshErrorIgnored(raised) == "save"
RefreshHandler(raised) == IF raised THEN "except" ELSE "save"

\* lines 155-164: the cached service, get_token(), the credentials object.
\* json.load of a file with nothing in it raises in get_token, outside the try.
InitializeCall ==
  /\ i_pc = "idle"
  /\ i_before' = <<token, token_serial>>
  /\ i_refresh' = "none"
  /\ IF initialized /\ service = "built"
     THEN /\ i_return' = Ok /\ i_pc' = "returned"
          /\ UNCHANGED <<client_error, i_creds>>
     ELSE IF token = "none"
     THEN /\ client_error' = NotAuthorized
          /\ i_return' = Err(NotAuthorized) /\ i_pc' = "returned"
          /\ UNCHANGED i_creds
     ELSE IF token = "empty"
     THEN /\ i_return' = Err(JSONDecodeError) /\ i_pc' = "returned"
          /\ UNCHANGED <<client_error, i_creds>>
     ELSE /\ i_creds' = Credentials(token, token_serial)
          /\ i_pc' = IF token = "expired" THEN "refresh" ELSE "check"
          /\ UNCHANGED <<client_error, i_return>>
  /\ UNCHANGED <<envVars, backupVars, schedVars, writerVars, raceVars,
                 token_serial, service, initialized, refreshes>>

\* lines 167-168: creds.refresh(Request())
Refresh ==
  /\ i_pc = "refresh"
  /\ \/ /\ refreshes < MaxRefreshes
        /\ refreshes' = refreshes + 1
        /\ i_creds' = Credentials("valid", refreshes + 1)
        /\ i_refresh' = "ok"
        /\ i_pc' = RefreshHandler(FALSE)
        /\ client_error' = client_error
     \/ /\ i_refresh' = "failed"
        /\ i_pc' = RefreshHandler(TRUE)
        /\ UNCHANGED <<refreshes, i_creds, client_error>>
  /\ UNCHANGED <<envVars, backupVars, schedVars, writerVars, raceVars,
                 token_serial, service, initialized, i_before, i_return>>

\* save_token, line 68: open(TOKEN_FILE, 'w') empties the file
SaveTokenOpen ==
  /\ i_pc = "save"
  /\ token' = "empty"
  /\ i_pc' = "dump"
  /\ UNCHANGED <<backupVars, schedVars, writerVars, raceVars, inventory,
                 delete_local, now, remote, localFS, drive, log,
                 google_drive_folder_id, token_serial, service, initialized,
                 client_error, i_creds, i_before, i_refresh, i_return, refreshes>>

\* save_token, line 69: json.dump(token_data, f); a write error leaves the
\* file as open left it and reaches line 180
SaveTokenDump ==
  /\ i_pc = "dump"
  /\ \/ /\ token' = i_creds.status /\ token_serial' = i_creds.serial
        /\ i_pc' = "check"
     \/ /\ UNCHANGED <<token, token_serial>>
        /\ i_pc' = "except"
  /\ UNCHANGED <<backupVars, schedVars, writerVars, raceVars, inventory,
                 delete_local, now, remote, localFS, drive, log,
                 google_drive_folder_id, service, initialized, client_error,
                 i_creds, i_before, i_refresh, i_return, refreshes>>

\* lines 173-179: the validity test, build(), self._initialized = True
CheckCredentials ==
  /\ i_pc = "check"
  /\ IF i_creds.status # "valid"
     THEN /\ client_error' = InvalidCredentials
          /\ i_return' = Err(InvalidCredentials) /\ i_pc' = "returned"
          /\ UNCHANGED <<service, initialized>>
     ELSE \/ /\ service' = "built" /\ initialized' = TRUE
             /\ i_return' = Ok /\ i_pc' = "returned"
             /\ client_error' = client_error
          \/ /\ i_pc' = "except"
             /\ UNCHANGED <<service, initialized, client_error, i_return>>
  /\ UNCHANGED <<envVars, backupVars, schedVars, writerVars, raceVars,
                 token_serial, i_creds, i_before, i_refresh, refreshes>>

\* lines 180-182
ExceptInitialize ==
  /\ i_pc = "except"
  /\ client_error' = FailedToInitialize
  /\ i_return' = Err(FailedToInitialize)
  /\ i_pc' = "returned"
  /\ UNCHANGED <<envVars, backupVars, schedVars, writerVars, raceVars,
                 token_serial, service, initialized, i_creds, i_before,
                 i_refresh, refreshes>>

\* the caller takes the pair (upload_file lines 195-197) and the call is over
CallerResumes ==
  /\ i_pc = "returned"
  /\ i_pc' = "idle"
  /\ i_refresh' = "none"
  /\ i_creds' = NoCredentials
  /\ UNCHANGED <<envVars, backupVars, schedVars, writerVars, raceVars,
                 token_serial, service, initialized, client_error, i_before,
                 i_return, refreshes>>

\* the access token of the stored credentials reaches its expiry
TokenExpires ==
  /\ i_pc = "idle"
  /\ token = "valid"
  /\ token' = "expired"
  /\ UNCHANGED <<backupVars, schedVars, writerVars, raceVars, clientVars,
                 inventory, delete_local, now, remote, localFS, drive, log,
                 google_drive_folder_id>>

\* handle_callback, lines 129-138: fetch_token, save_token, self._initialized = False
HandleCallback ==
  /\ i_pc = "idle"
  /\ refreshes < MaxRefreshes
  /\ refreshes' = refreshes + 1
  /\ token' = "valid" /\ token_serial' = refreshes + 1
  /\ initialized' = FALSE
  /\ UNCHANGED <<backupVars, schedVars, writerVars, raceVars, inventory,
                 delete_local, now, remote, localFS, drive, log,
                 google_drive_folder_id, service, client_error, i_pc, i_creds,
                 i_before, i_refresh, i_return>>

\* revoke, lines 321-324
Revoke ==
  /\ i_pc = "idle"
  /\ token' = "none"
  /\ initialized' = FALSE /\ service' = "None"
  /\ UNCHANGED <<backupVars, schedVars, writerVars, raceVars, inventory,
                 delete_local, now, remote, localFS, drive, log,
                 google_drive_folder_id, token_serial, client_error, i_pc,
                 i_creds, i_before, i_refresh, i_return, refreshes>>

\* ------------------------------------------- create_backup calls that overlap
\* the scheduler's thread and a request thread
Transactions == {"scheduled", "manual"}

\* no create_backup call is running
NoCalls ==
  /\ c_pc = [p \in Transactions |-> "idle"]
  /\ c_router = [p \in Transactions |-> NoRouter]
  /\ c_filename = [p \in Transactions |-> NoName]
  /\ c_local_files = [p \in Transactions |-> << >>]
  /\ c_calls = 0

\* a device file of call p
RemoteFileOf(p, ext) ==
  [router |-> c_router[p].id, name |-> WithExt(c_filename[p], ext)]

\* lines 44-54: the call and its locals
CallCreateBackup(p) ==
  /\ c_pc[p] = "idle"
  /\ c_calls < MaxCalls
  /\ c_calls' = c_calls + 1
  /\ \E i \in 1..Len(inventory) :
       c_router' = [c_router EXCEPT ![p] = inventory[i]]
  /\ c_filename' = [c_filename EXCEPT ![p] = NoName]
  /\ c_local_files' = [c_local_files EXCEPT ![p] = << >>]
  /\ c_pc' = [c_pc EXCEPT ![p] = "name"]
  /\ UNCHANGED <<envVars, backupVars, schedVars, writerVars, clientVars>>

\* lines 58-78: connect, identity, timestamp, filename
NameArtifacts(p) ==
  /\ c_pc[p] = "name"
  /\ c_filename' = [c_filename EXCEPT ![p] = Stem(c_router[p].device, now)]
  /\ c_pc' = [c_pc EXCEPT ![p] = "export"]
  /\ UNCHANGED <<envVars, backupVars, schedVars, writerVars, clientVars,
                 c_router, c_local_files, c_calls>>

\* lines 82-108: /export and /system/backup save write the two device files
ExportAndSave(p) ==
  /\ c_pc[p] = "export"
  /\ remote' = remote \cup {RemoteFileOf(p, "rsc"), RemoteFileOf(p, "backup")}
  /\ c_pc' = [c_pc EXCEPT ![p] = "sleep"]
  /\ UNCHANGED <<backupVars, schedVars, writerVars, clientVars, inventory,
                 delete_local, now, localFS, drive, log, token,
                 google_drive_folder_id, c_router, c_filename, c_local_files,
                 c_calls>>

\* lines 111-116: time.sleep(5), the transfer session
Settle(p) ==
  /\ c_pc[p] = "sleep"
  /\ now' = now + 1
  /\ c_pc' = [c_pc EXCEPT ![p] = "dl_rsc"]
  /\ UNCHANGED <<backupVars, schedVars, writerVars, clientVars, inventory,
                 delete_local, remote, localFS, drive, log, token,
                 google_drive_folder_id, c_router, c_filename, c_local_files,
                 c_calls>>

\* lines 119-125 and 128-134: open(path, "wb"), RETR, local_files.append
Fetch(p, step, ext, next) ==
  /\ c_pc[p] = step
  /\ LET path == LocalPath(WithExt(c_filename[p], ext))
     IN  /\ localFS' = localFS \cup {path}
         /\ c_local_files' =
              IF RemoteFileOf(p, ext) \in remote
              THEN [c_local_files EXCEPT ![p] = Append(@, path)]
              ELSE c_local_files
  /\ c_pc' = [c_pc EXCEPT ![p] = next]
  /\ UNCHANGED <<backupVars, schedVars, writerVars, clientVars, inventory,
                 delete_local, now, remote, drive, log, token,
                 google_drive_folder_id, c_router, c_filename, c_calls>>

\* lines 136-147: ftp.quit(), then the two device files are removed by name
QuitAndCleanup(p) ==
  /\ c_pc[p] = "cleanup"
  /\ remote' = remote \ {RemoteFileOf(p, "rsc"), RemoteFileOf(p, "backup")}
  /\ c_pc' = [c_pc EXCEPT ![p] = "evaluate"]
  /\ UNCHANGED <<backupVars, schedVars, writerVars, clientVars, inventory,
                 delete_local, now, localFS, drive, log, token,
                 google_drive_folder_id, c_router, c_filename, c_local_files,
                 c_calls>>

\* lines 149-184: the result is built and the call returns
ReturnResult(p) ==
  /\ c_pc[p] = "evaluate"
  /\ c_pc' = [c_pc EXCEPT ![p] = "idle"]
  /\ UNCHANGED <<envVars, backupVars, schedVars, writerVars, clientVars,
                 c_router, c_filename, c_local_files, c_calls>>

\* the wall clock reaches the next second
Tick ==
  /\ now <= MaxPrior + MaxCalls
  /\ now' = now + 1
  /\ UNCHANGED <<backupVars, schedVars, writerVars, clientVars, raceVars,
                 inventory, delete_local, remote, localFS, drive, log, token,
                 google_drive_folder_id>>

CreateBackup(p) ==
  \/ CallCreateBackup(p) \/ NameArtifacts(p) \/ ExportAndSave(p) \/ Settle(p)
  \/ Fetch(p, "dl_rsc", "rsc", "dl_backup")
  \/ Fetch(p, "dl_backup", "backup", "cleanup")
  \/ QuitAndCleanup(p) \/ ReturnResult(p)

\* -------------------------------------------------------------- backup flows
Init ==
  /\ inventory \in Inventories
  /\ delete_local \in BOOLEAN
  /\ token \in {"valid", "none"}
  /\ google_drive_folder_id = "folder1"
  /\ log = << >>
  /\ settings = DEFAULT_SETTINGS
  /\ BackupInit /\ SchedulerIdle /\ WriterIdle /\ ClientIdle /\ NoCalls

Next ==
  \/ ScheduledBackupJob \/ BackupAll \/ BackupSingle
  \/ NextRouter
  \/ Connect \/ ResolveIdentity \/ Export \/ Snapshot \/ Sleep \/ FtpConnect
  \/ DownloadRsc \/ DownloadBackup \/ FtpQuit \/ Cleanup
  \/ Evaluate \/ Except \/ Finally
  \/ PostBackup \/ Upload \/ AfterUpload \/ AddLogEntry

Spec == Init /\ [][Next]_vars

\* ------------------------------------------------------- the other services
\* no backup handler runs and the settings outside the schedule are the defaults
NoBackups ==
  /\ inventory = << >> /\ delete_local = FALSE /\ token = "none"
  /\ google_drive_folder_id = ""
  /\ BackupInit /\ ClientIdle /\ NoCalls

\* the application starts with whatever descriptor data/settings.json holds
SchedulerInit ==
  /\ settings \in Descriptors
  /\ log = << >>
  /\ NoBackups /\ SchedulerIdle /\ WriterIdle

\* update_scheduler calls one after another, by one thread
SchedulerNext ==
  \/ UpdateScheduler({"t1"})
  \/ Fire \/ DashboardLoad \/ DashboardJob

SchedulerSpec == SchedulerInit /\ [][SchedulerNext]_vars

\* settings views on concurrent request threads
ReconfigureNext ==
  \/ UpdateScheduler(Callers)
  \/ Fire \/ DashboardLoad \/ DashboardJob

ReconfigureSpec == SchedulerInit /\ [][ReconfigureNext]_vars

\* the history file as earlier runs left it
LogInit ==
  /\ log \in {PriorLog(n) : n \in PriorLengths}
  /\ settings = DEFAULT_SETTINGS
  /\ NoBackups /\ SchedulerIdle /\ WriterIdle

\* add_log_entry calls one after another
LogNext == \E w \in Writers : LoadBackupLog(w, TRUE) \/ SaveLog(w)

LogSpec == LogInit /\ [][LogNext]_vars

\* add_log_entry calls of handlers that run at the same time
LogRaceNext == \E w \in Writers : LoadBackupLog(w, FALSE) \/ SaveLog(w)

LogRaceSpec == LogInit /\ [][LogRaceNext]_vars

\* the client's calls one after another, the token file between them
ClientInit ==
  /\ inventory = << >> /\ delete_local = FALSE
  /\ token \in {"none", "valid", "expired"}
  /\ google_drive_folder_id = ""
  /\ log = << >> /\ settings = DEFAULT_SETTINGS
  /\ BackupInit /\ SchedulerIdle /\ WriterIdle /\ ClientIdle /\ NoCalls

ClientNext ==
  \/ InitializeCall \/ Refresh \/ SaveTokenOpen \/ SaveTokenDump
  \/ CheckCredentials \/ ExceptInitialize \/ CallerResumes
  \/ TokenExpires \/ HandleCallback \/ Revoke

ClientSpec == ClientInit /\ [][ClientNext]_vars

\* a firing of the recurring job and a backup request at the same time
OverlapInit ==
  /\ inventory = <<RouterA, RouterB>> /\ delete_local = FALSE /\ token = "none"
  /\ google_drive_folder_id = ""
  /\ log = << >> /\ settings = DEFAULT_SETTINGS
  /\ BackupInit /\ SchedulerIdle /\ WriterIdle /\ ClientIdle /\ NoCalls

OverlapNext == Tick \/ \E p \in Transactions : CreateBackup(p)

OverlapSpec == OverlapInit /\ [][OverlapNext]_vars

\* ===================================================================== claims
TxSteps == {"connect", "identity", "export", "snapshot", "sleep", "ftp_connect",
            "dl_rsc", "dl_backup", "ftp_quit", "cleanup", "evaluate", "except",
            "finally"}

Range(seq) == {seq[i] : i \in 1..Len(seq)}

\* a cloud file belongs to identity I when its name starts with `I-`
HasPrefix(name, I) ==
  /\ Len(name) > Len(I)
  /\ SubSeq(name, 1, Len(I)) = I

\* the cloud files of device identity I
StoredFor(I) == {d \in drive : HasPrefix(d.name, I)}

\* C1: a transaction's outcome has success = TRUE iff it downloaded at least
\* one artifact, whatever failed after the downloads.
C1_SuccessIffDownloaded ==
  pc = "returned" => (result.success <=> local_files # << >>)

\* C2: create_backup never lets an exception out: it always returns a
\* BackupResult, and a fatal failure is carried by success = FALSE, the
\* message "Backup failed: <cause>" and an empty file list.
C2_NeverRaises ==
  /\ pc # "escaped"
  /\ pc = "returned" =>
       /\ result.made
       /\ error # "" => /\ ~result.success
                        /\ result.message = FailedMessage(error)
                        /\ result.local_files = << >>

C2_Witness ==
  /\ pc = "returned"
  /\ error = "ftp connect failed"
  /\ ftp = "broken"
  /\ api_pool = "disconnected"

\* C3: once the upload-and-prune step of a transaction with at least one
\* successful upload is over, the store holds at most keep_latest files of the
\* device identity (nothing is ever added to the K most recent ones).
C3_RetentionHolds ==
  (pc \in {"log", "idle"} /\ drive_files # << >>) =>
    Cardinality(StoredFor(identity)) <= KeepLatest(trigger)

\* C4: a local file is removed only after its own upload succeeded and only
\* when delete_local_after_upload is set; a file whose upload failed is still
\* in the backup directory for the rest of the device's pipeline.
C4_LocalDeletion ==
  /\ removed \subseteq {LocalPath(d.name) : d \in Range(drive_files)}
  /\ removed # {} => delete_local
  /\ \A i \in 1..Len(result.local_files) :
       (i < idx /\ Basename(result.local_files[i]) \notin {d.name : d \in Range(drive_files)})
         => result.local_files[i] \in localFS

C4_Witness ==
  /\ delete_local
  /\ removed # {}
  /\ drive_errors # << >>
  /\ idx > Len(result.local_files)

\* C5: a sweep runs create_backup once per inventory device, in inventory
\* order, and ends normally whatever failed for an earlier device.
C5_SweepCompletes ==
  (pc = "idle" /\ trigger \in {"scheduler", "manual_all"}) =>
    /\ outcome = "done"
    /\ ran = [i \in 1..Len(inventory) |-> inventory[i].id]

\* C6: when a handler is over, every transaction it ran has its one log entry.
C6_OneLogEntryPerBackup ==
  /\ logged <= Len(ran)
  /\ pc = "idle" => logged = Len(ran)

\* C7: outside create_backup no management session is open: the session a
\* transaction opened is disconnected before the call returns.
C7_SessionClosed ==
  pc \notin TxSteps => api_pool # "open"

C7_Witness ==
  /\ pc = "returned"
  /\ api_pool = "disconnected"
  /\ quit_failed
  /\ ftp = "broken"

\* C8: the export is retried exactly once, without show-sensitive, exactly when
\* the first call was rejected as an unknown parameter; after a successful
\* retry the transaction goes on, after any other export failure it ends with
\* success = FALSE and no snapshot command.
C8_ExportFallback ==
  /\ Len(exports) <= 2
  /\ exports # << >> =>
       /\ exports[1].sensitive
       /\ Len(exports) = 2 <=> exports[1].answer = "unknown parameter"
       /\ Len(exports) = 2 => ~exports[2].sensitive
       /\ pc = "returned" =>
            IF exports[Len(exports)].answer = "ok"
            THEN snapshot
            ELSE ~snapshot /\ ~result.success /\ attempted = {}

C8_Witness ==
  /\ pc = "returned"
  /\ Len(exports) = 2
  /\ exports[2].answer = "ok"
  /\ result.success

\* C9: once the transfer session opened, both downloads are attempted whatever
\* the other one did, and a transaction with exactly one successful download
\* returns success = TRUE with exactly that file.
C9_PartialDownloadSucceeds ==
  /\ (pc \in {"ftp_quit", "cleanup", "evaluate"}) => attempted = {"rsc", "backup"}
  /\ (pc = "returned" /\ Len(local_files) = 1) =>
       /\ result.success
       /\ result.local_files = local_files

\* C10: when remote cleanup ran, the result is the function of the downloads
\* alone, whether listing or removing failed or the files were already gone.
C10_CleanupNeutral ==
  (pc = "returned" /\ cleanup # "none") =>
    /\ result.success = (local_files # << >>)
    /\ result.local_files = local_files
    /\ result.message = IF local_files = << >> THEN NoFilesMessage
                        ELSE CreatedMessage(local_files)

C10_Witness ==
  /\ pc = "returned"
  /\ cleanup = "remove_error"
  /\ Len(local_files) = 2
  /\ result.success

\* C11: when a transaction is over and neither the file-list nor the
\* file-remove command failed, none of the artifacts it created is left on the
\* device, whichever way the transaction ended.
C11_RemoteArtifactsRemoved ==
  (pc = "returned" /\ cleanup \notin {"list_error", "remove_error"}) => Mine = {}

\* C12: after update_scheduler calls run one after another (the first one by
\* init_scheduler), the scheduler never holds more than one job under
\* 'backup_all_routers', and holds exactly one when the last call ended and
\* ran with schedule_enabled true and schedule_type 'interval' or 'cron'.
C12_SingleJob ==
  /\ Cardinality(JobsWithId(JOB_ID)) <= 1
  /\ \A p \in Callers :
       (/\ u_pc[p] = "idle" /\ u_outcome[p] # "none"
        /\ u_settings[p].schedule_enabled
        /\ u_settings[p].schedule_type \in {"interval", "cron"})
         => Cardinality(JobsWithId(JOB_ID)) = 1

C12_Witness ==
  /\ u_pc["t1"] = "idle" /\ u_outcome["t1"] = "returned"
  /\ updates >= 2
  /\ u_found["t1"]
  /\ u_settings["t1"].schedule_enabled
  /\ u_settings["t1"].schedule_type = "interval"
  /\ Len(jobs) = 1

\* C13: when update_scheduler has returned for the persisted descriptor d, the
\* scheduler holds no job if d is disabled, and otherwise exactly the job of d:
\* an interval trigger of d's hours for 'interval', a daily trigger at d's
\* hour:minute for 'cron', and nothing of the trigger installed before.
C13_JobOfDescriptor ==
  \A p \in Callers :
    (u_pc[p] = "idle" /\ u_outcome[p] = "returned") =>
      IF ~settings.schedule_enabled THEN jobs = << >>
      ELSE CASE settings.schedule_type = "interval" ->
                  /\ Len(jobs) = 1 /\ jobs[1].id = "backup_all_routers"
                  /\ jobs[1].trigger.kind = "interval"
                  /\ jobs[1].trigger.args = <<settings.schedule_interval_hours>>
             [] settings.schedule_type = "cron" ->
                  /\ Len(jobs) = 1 /\ jobs[1].id = "backup_all_routers"
                  /\ jobs[1].trigger.kind = "cron"
                  /\ jobs[1].trigger.args = <<settings.schedule_cron_hour,
                                              settings.schedule_cron_minute>>
             [] OTHER -> TRUE

C13_Witness ==
  /\ u_pc["t1"] = "idle" /\ u_outcome["t1"] = "returned"
  /\ u_found["t1"]
  /\ settings.schedule_enabled /\ settings.schedule_type = "cron"
  /\ settings.schedule_cron_hour = 23
  /\ Len(jobs) = 1 /\ jobs[1].trigger.kind = "cron"

\* C14: reconfiguration is atomic under concurrency: never two jobs, no
\* update_scheduler call ends in an error, and a dashboard that reads an enabled
\* schedule never finds the job missing while a reconfiguration from an enabled
\* to an enabled descriptor is under way.
C14_AtomicReconfigure ==
  /\ Cardinality(JobsWithId(JOB_ID)) <= 1
  /\ \A p \in Callers : u_outcome[p] # "raised"
  /\ (d_pc = "idle" /\ d_enabled /\ next_run = "none") =>
       ~\E p \in Callers :
          /\ u_pc[p] = "install" /\ u_found[p]
          /\ u_settings[p].schedule_enabled
          /\ u_settings[p].schedule_type \in {"interval", "cron"}

\* C15: after serialized add_log_entry calls the stored history has at most 100
\* entries and is the tail of everything ever appended, in append order: all of
\* it up to 100 entries, the 100 most recent ones beyond.
C15_LogBounded ==
  /\ Len(log) <= 100
  /\ (\A w \in Writers : w_pc[w] = "idle") =>
       /\ Len(log) = IF Len(appended) <= 100 THEN Len(appended) ELSE 100
       /\ \A i \in 1..Len(log) : log[i] = appended[Len(appended) - Len(log) + i]

C15_Witness ==
  /\ \A w \in Writers : w_pc[w] = "idle"
  /\ appends >= 3
  /\ Len(appended) > 100
  /\ Len(log) = 100
  /\ log[1] # appended[1]
  /\ log[100] = appended[Len(appended)]

\* C16: add_log_entry is a read-modify-write without a lock: the stored history
\* always ends with the entry of the call that saved last, and an entry saved
\* by a finished call is missing from it only if calls overlapped; calls that
\* did not overlap keep every entry.
C16_LastWriterWins ==
  /\ (appended # << >> /\ appended[Len(appended)].timestamp >= 1) =>
       (log # << >> /\ log[Len(log)] = appended[Len(appended)])
  /\ (~overlapped /\ \A w \in Writers : w_pc[w] = "idle") =>
       \A i \in 1..Len(appended) :
         appended[i].timestamp >= 1 => appended[i] \in Range(log)

\* the lost update: both handlers read the same history, the manual sweep
\* saved last, and the scheduled firing's entry is gone
C16_Witness ==
  /\ \A w \in Writers : w_pc[w] = "idle"
  /\ appends = 2
  /\ w_log["scheduler"] = w_log["manual_all"]
  /\ w_entry["scheduler"] \in Range(appended)
  /\ appended[Len(appended)] = w_entry["manual_all"]
  /\ w_entry["manual_all"] \in Range(log)
  /\ w_entry["scheduler"] \notin Range(log)

\* the handler entered the upload loop for the transaction at hand
Uploading == result.success /\ result.local_files # << >> /\ authorized

\* C17: the identity the upload step derives from the name of the first local
\* file is the device identity the file name was built from.
C17_DerivedIdentityIsIdentity ==
  (pc = "upload" /\ result.local_files # << >>) =>
    DerivedIdentity(Basename(result.local_files[1])) = identity

\* C18: from the naming step on, the identity of the transaction is not the
\* empty string: it is the name the device reports or, when the query failed,
\* the configured name of the router.
C18_IdentityNonEmpty ==
  ((pc \in TxSteps \/ pc = "returned") /\ filename # << >>) =>
    /\ identity # << << >> >> /\ identity # << >>
    /\ identity \in {router.device, router.name}
    /\ filename[1] # << >>

\* C19: the handler calls the prune operation at most once per transaction,
\* only when the upload loop is over and at least one upload succeeded, for the
\* identity derived from the transaction's first file and the configured
\* folder, with keep_latest 12 from the scheduler and 2 from a manual trigger.
C19_PruneCall ==
  /\ Len(pruned) <= 1
  /\ pruned # << >> =>
       /\ Uploading
       /\ idx = Len(result.local_files) + 1
       /\ drive_files # << >>
       /\ pruned[1].identity = DerivedIdentity(Basename(result.local_files[1]))
       /\ pruned[1].folder_id = IF google_drive_folder_id = "" THEN "None"
                                ELSE google_drive_folder_id
       /\ pruned[1].keep_latest = IF trigger = "scheduler" THEN 12 ELSE 2

C19_Witness ==
  /\ trigger = "scheduler"
  /\ Len(pruned) = 1
  /\ pruned[1].keep_latest = 12
  /\ Len(drive_files) = 1
  /\ Len(drive_errors) = 1

ArtifactPaths ==
  <<LocalPath(WithExt(filename, "rsc")), LocalPath(WithExt(filename, "backup"))>>

\* C21: the outcome is a function of the downloads: with at least one download
\* done it is a success whose local_files are the downloaded paths, .rsc before
\* .backup, and whose message is 'Backup created: ' and their base names; with
\* the transfer session opened and both downloads failed it is a failure with
\* no files and the message 'Backup failed: Could not download any backup files'.
C21_OutcomeOfDownloads ==
  (pc = "returned" /\ attempted = {"rsc", "backup"}) =>
    IF local_files # << >>
    THEN /\ result.success
         /\ result.local_files = local_files
         /\ local_files \in {ArtifactPaths, <<ArtifactPaths[1]>>, <<ArtifactPaths[2]>>}
         /\ result.message.head = "Backup created: "
         /\ result.message.names = [i \in 1..Len(local_files) |-> local_files[i].name]
    ELSE /\ ~result.success
         /\ result.local_files = << >>
         /\ result.message.head = "Backup failed: "
         /\ result.message.cause = "Could not download any backup files"

\* C22: every entry of the backup history has the keys success, router_id,
\* router_name, message, local_files, timestamp and triggered_by, and the
\* entries a handler appends carry its own label: 'scheduler' for the
\* recurring job, 'manual' / 'manual_all' for the two request handlers.
C22_LogEntryShape ==
  /\ \A i \in 1..Len(log) :
       /\ {"success", "router_id", "router_name", "message", "local_files",
           "timestamp", "triggered_by"} \subseteq DOMAIN log[i]
       /\ log[i].triggered_by \in {"scheduler", "manual", "manual_all"}
  /\ logged <= Len(log)
  /\ \A i \in (Len(log) - logged + 1)..Len(log) : log[i].triggered_by = trigger

C22_Witness ==
  /\ Len(log) = 2 /\ logged = 2
  /\ log[1].triggered_by = "scheduler" /\ log[1].success
  /\ log[1].local_files # << >>
  /\ log[2].triggered_by = "scheduler" /\ ~log[2].success

\* C23: a token refresh that fails inside initialize leaves the stored token
\* as the call found it (same token, never empty or half-written), and the
\* call returns (False, error) with the client not initialized.
C23_RefreshFailureKeepsToken ==
  i_refresh = "failed" =>
    /\ <<token, token_serial>> = i_before
    /\ token = "expired"
    /\ ~initialized
    /\ i_pc \in {"except", "returned"}
    /\ i_pc = "returned" => /\ ~i_return.ok
                            /\ i_return.error = "Failed to initialize Google Drive"
                            /\ client_error = i_return.error

C23_Witness ==
  /\ i_refresh = "failed"
  /\ i_pc = "returned"
  /\ token = "expired" /\ token_serial = 1
  /\ service = "built"

\* C24: the steps of a transaction run in the fixed order connect, identity,
\* export, snapshot, settling delay, transfer connect, .rsc download, .backup
\* download, transfer close, remote cleanup, evaluation, disconnect: a step
\* has run only if every step before it has, no download starts before export
\* and snapshot returned and the delay is over, and the transfer session is
\* closed before the cleanup and before the evaluation.
C24_StepOrder ==
  /\ identity # NoName => api_pool \in {"open", "disconnected"}
  /\ exports # << >> => identity # NoName /\ filename # NoName
  /\ snapshot => exports # << >> /\ exports[Len(exports)].answer = "ok"
  /\ slept => snapshot
  /\ ftp # "none" => slept
  /\ (pc \in {"dl_rsc", "dl_backup"} \/ attempted # {}) =>
       /\ slept /\ snapshot /\ exports[Len(exports)].answer = "ok"
       /\ ftp \notin {"none", "created"}
  /\ pc = "dl_rsc" => attempted = {}
  /\ pc = "dl_backup" => attempted = {"rsc"}
  /\ "backup" \in attempted => "rsc" \in attempted
  /\ pc = "ftp_quit" => attempted = {"rsc", "backup"} /\ ftp = "open"
  /\ (pc = "cleanup" \/ cleanup # "none") =>
       attempted = {"rsc", "backup"} /\ ftp = "closed"
  /\ pc = "cleanup" => cleanup = "none" /\ ~result.made
  /\ pc = "evaluate" => cleanup # "none" /\ ftp = "closed" /\ ~result.made
  /\ (result.made /\ result.success) => cleanup # "none" /\ ftp = "closed"
  /\ api_pool = "disconnected" => result.made
  /\ (pc \in TxSteps \ {"finally"}) => api_pool # "disconnected"

C24_Witness ==
  /\ pc = "returned"
  /\ result.success
  /\ attempted = {"rsc", "backup"}
  /\ cleanup = "removed"
  /\ ftp = "closed"
  /\ api_pool = "disconnected"

\* C25: the remote cleanup removes from the device only files named exactly
\* <stem>.rsc or <stem>.backup for the stem of the running transaction; every
\* other file of that device and every file of another device stays.
C25_CleanupFrame ==
  [][pc = "cleanup" =>
       \A f \in remote \ remote' :
         /\ f.router = router.id
         /\ \E ext \in {"rsc", "backup"} :
              f.name = SubSeq(filename, 1, Len(filename) - 1)
                         \o << filename[Len(filename)] \o <<".", ext>> >>]_vars

C25_Witness ==
  /\ pc = "evaluate"
  /\ cleanup = "removed"
  /\ \E f \in remote : f.router = router.id /\ f.name[1] = filename[1]

\* the keys the upload branch may add to a log entry
UploadKeys == {"drive_files", "drive_errors", "local_deleted"}

\* C26: the upload-and-prune step runs only for a successful outcome with
\* local files while the store answered authorized; otherwise nothing is
\* uploaded, no local file is removed, nothing is pruned, and the log entry
\* has none of the keys drive_files, drive_errors, local_deleted.
C26_UploadGuard ==
  /\ (\/ pc = "upload"
      \/ drive_files # << >> \/ drive_errors # << >>
      \/ removed # {} \/ pruned # << >>) =>
       (result.success /\ result.local_files # << >> /\ authorized)
  /\ (pc = "log" /\ ~(result.success /\ result.local_files # << >> /\ authorized)) =>
       /\ DOMAIN log_entry \cap UploadKeys = {}
       /\ Range(result.local_files) \subseteq localFS
  /\ \A i \in 1..Len(log) :
       DOMAIN log[i] \cap UploadKeys # {} =>
         log[i].success /\ log[i].local_files # << >>

C26_Witness ==
  /\ pc = "log"
  /\ result.success /\ Len(result.local_files) = 2
  /\ ~authorized /\ token = "none"
  /\ DOMAIN log_entry \cap UploadKeys = {}
  /\ drive = PriorDrive(MaxPrior)

\* C27: when create_backup returns, the files it created in the local backup
\* directory are exactly the outcome's local_files: a failed download leaves
\* no empty or partial file, a failed outcome leaves no file at all.
C27_LocalFilesAreTheOutcome ==
  pc = "returned" =>
    {f \in localFS : f \in Range(ArtifactPaths)} = Range(result.local_files)

C29_JobOfPersistedSettings ==
  (/\ started = "yes"
   /\ \A p \in Callers : u_pc[p] = "idle"
   /\ settings.schedule_type \in {"interval", "cron"}) =>
    /\ settings.schedule_enabled <=> jobs # << >>
    /\ settings.schedule_enabled =>
         jobs = << IF settings.schedule_type = "interval"
                   THEN [id |-> "backup_all_routers", func |-> "scheduled_backup_job",
                         trigger |-> [kind |-> "interval",
                                      args |-> <<settings.schedule_interval_hours>>]]
                   ELSE [id |-> "backup_all_routers", func |-> "scheduled_backup_job",
                         trigger |-> [kind |-> "cron",
                                      args |-> <<settings.schedule_cron_hour,
                                                 settings.schedule_cron_minute>>]] >>

\* a call that has named its artifacts and has not returned yet
Running(p) == c_pc[p] \notin {"idle", "name"}

\* C30: two transactions that run at the same time (a scheduled firing and a
\* manual backup, possibly of the same device) never use the same filename
\* stem, so the cleanup of one never removes a device file the other still has
\* to download, and no local path is written by both.
C30_DistinctStems ==
  \A p \in Transactions : \A q \in Transactions \ {p} :
    /\ (Running(p) /\ Running(q)) => c_filename[p] # c_filename[q]
    /\ c_pc[p] \in {"dl_rsc", "dl_backup"} =>
         [router |-> c_router[p].id,
          name |-> WithExt(c_filename[p], "backup")] \in remote
    /\ Range(c_local_files[p]) \cap Range(c_local_files[q]) = {}
====
